---- MODULE Spec2Model ----
(***************************************************************************)
(* zola-builder: scripts/build.py and scripts/build-action.py.             *)
(*                                                                         *)
(* A Python str is modelled as a sequence of one-character strings, so     *)
(* that strip(), split(), startswith() and the regular expressions of the  *)
(* scripts are computed character by character, as the interpreter does.   *)
(***************************************************************************)
EXTENDS Integers, Sequences, FiniteSets, TLC

VARIABLES
    pc,             \* position of the running script / call
    text,           \* slugify: the argument
    slug,           \* slugify: the returned value
    readme,         \* the text of README.md, as read_text() returns it
    readme_data,    \* parse_readme: the returned dict
    heading_map,    \* build_heading_map: the returned dict
    content,        \* fix_anchor_links: the content argument
    current_slug,   \* fix_anchor_links: the current_slug argument
    rewritten,      \* fix_anchor_links: the returned value
    argv,           \* main: the script run, its flags and its environment
    fs,             \* the target repository on disk
    fs0,            \* the target repository when the script was started
    metadata,       \* main: what get_repo_metadata returned
    exit_code       \* the exit status of the script, once it has ended

vars == <<pc, text, slug, readme, readme_data, heading_map,
          content, current_slug, rewritten,
          argv, fs, fs0, metadata, exit_code>>

links == <<content, current_slug, rewritten>>

build == <<argv, fs, fs0, metadata, exit_code>>

\* Python's None: a value that no str (sequence of characters) equals
None == <<"None">>

----------------------------------------------------------------------------
(* Characters and the classes Python gives them.                           *)

AsciiLower == {"a", "b", "c", "d", "m", "t", "x"}
AsciiUpper == {"A", "B", "T"}
AsciiDigit == {"1"}
NonAscii   == {"é", "É"}          \* str.isalnum() letters outside ASCII
Whitespace == {" ", "\t", "\n"}   \* \s of re, and what str.strip() removes

\* str.lower(), one character
Lower(c) ==
    CASE c = "A" -> "a"
      [] c = "B" -> "b"
      [] c = "T" -> "t"
      [] c = "É" -> "é"
      [] OTHER   -> c

\* \w of re on str patterns (Unicode): alphanumerics of any script and "_"
IsWord(c) == c \in AsciiLower \cup AsciiUpper \cup AsciiDigit \cup NonAscii \cup {"_"}

\* \s of re
IsSpace(c) == c \in Whitespace

\* all sequences over S of length 0..n
SeqsUpTo(S, n) == UNION {[1..k -> S] : k \in 0..n}

----------------------------------------------------------------------------
(* str helpers                                                             *)

\* str.lower()
lower(s) == [i \in 1..Len(s) |-> Lower(s[i])]

\* s[i:] (0-based i, as Python)
From(s, i) == IF i >= Len(s) THEN <<>> ELSE SubSeq(s, i + 1, Len(s))

\* s.startswith(p)
startswith(s, p) == Len(s) >= Len(p) /\ SubSeq(s, 1, Len(p)) = p

\* s.lstrip(chars) / s.rstrip(chars) / s.strip(chars) for a set of characters
RECURSIVE lstrip(_, _)
lstrip(s, chars) ==
    IF s /= <<>> /\ Head(s) \in chars THEN lstrip(Tail(s), chars) ELSE s

RECURSIVE rstrip(_, _)
rstrip(s, chars) ==
    IF s /= <<>> /\ s[Len(s)] \in chars
    THEN rstrip(SubSeq(s, 1, Len(s) - 1), chars)
    ELSE s

strip_chars(s, chars) == rstrip(lstrip(s, chars), chars)

\* s.strip()
strip(s) == strip_chars(s, Whitespace)

\* re.sub(r"[class]+", rep, s): every maximal run of characters of the set
\* `class` is replaced by the sequence rep
RECURSIVE sub_runs(_, _, _)
sub_runs(class, rep, s) ==
    IF s = <<>> THEN <<>>
    ELSE IF Head(s) \in class
         THEN rep \o sub_runs(class, rep, lstrip(s, class))
         ELSE <<Head(s)>> \o sub_runs(class, rep, Tail(s))

----------------------------------------------------------------------------
(* slugify                                                                 *)

\* re.sub(r"[^\w\s-]", "", text)
slug_remove(s) == SelectSeq(s, LAMBDA c : IsWord(c) \/ IsSpace(c) \/ c = "-")

\* re.sub(r"[\s_]+", "-", text)
slug_spaces(s) == sub_runs(Whitespace \cup {"_"}, <<"-">>, s)

\* re.sub(r"-+", "-", text)
slug_hyphens(s) == sub_runs({"-"}, <<"-">>, s)

\* a slugify that collapses the hyphens before it turns whitespace into them
slugify_collapse_first(t) ==
    strip_chars(slug_spaces(slug_hyphens(slug_remove(lower(t)))), {"-"})

slugify(t) ==
    strip_chars(slug_hyphens(slug_spaces(slug_remove(lower(t)))), {"-"})

----------------------------------------------------------------------------
(* parse_readme                                                            *)

\* content.split("\n")
RECURSIVE split(_)
split(s) ==
    IF \A i \in 1..Len(s) : s[i] /= "\n" THEN <<s>>
    ELSE LET k == CHOOSE i \in 1..Len(s) :
                      s[i] = "\n" /\ \A j \in 1..(i - 1) : s[j] /= "\n"
         IN  <<SubSeq(s, 1, k - 1)>> \o split(SubSeq(s, k + 1, Len(s)))

\* "\n".join(lines)
RECURSIVE join(_)
join(lines) ==
    IF lines = <<>> THEN <<>>
    ELSE IF Len(lines) = 1 THEN lines[1]
    ELSE lines[1] \o <<"\n">> \o join(Tail(lines))

\* stripped.startswith("# ") and not stripped.startswith("##")
is_title_line(line) ==
    LET stripped == strip(line)
    IN  startswith(stripped, <<"#", " ">>) /\ ~startswith(stripped, <<"#", "#">>)

\* lines[i].strip().startswith("## ")
is_h2_line(line) == startswith(strip(line), <<"#", "#", " ">>)

\* the first loop: the title and the index of the line after it (lines are
\* indexed from 1 here; i > Len(lines) is the loop's exit)
RECURSIVE title_loop(_, _)
title_loop(lines, i) ==
    IF i > Len(lines) THEN [title |-> <<>>, i |-> i]
    ELSE IF is_title_line(lines[i])
         THEN [title |-> strip(From(strip(lines[i]), 2)), i |-> i + 1]
         ELSE title_loop(lines, i + 1)

\* the second loop: the index at which the intro ends
RECURSIVE intro_loop(_, _)
intro_loop(lines, i) ==
    IF i > Len(lines) \/ is_h2_line(lines[i]) THEN i
    ELSE intro_loop(lines, i + 1)

\* a finish_section that forgets to strip the content
finish_section_unstripped(current) ==
    [title |-> current.title, slug |-> current.slug,
     content |-> join(current.lines)]

\* current["content"] = "\n".join(current["_lines"]).strip(); del _lines
finish_section(current) ==
    [title |-> current.title, slug |-> current.slug,
     content |-> strip(join(current.lines))]

\* `current` is <<>> for None and <<dict>> for a dict; `if current:` is true
\* of every dict the loop builds, since it has keys
flush(current, sections) ==
    IF current /= <<>> THEN Append(sections, finish_section(current[1]))
    ELSE sections

\* the third loop and the flush after it
RECURSIVE section_loop(_, _, _, _)
section_loop(lines, i, current, sections) ==
    IF i > Len(lines) THEN flush(current, sections)
    ELSE IF is_h2_line(lines[i])
         THEN LET title == strip(From(strip(lines[i]), 3))
              IN  section_loop(lines, i + 1,
                      <<[title |-> title, slug |-> slugify(title), lines |-> <<>>]>>,
                      flush(current, sections))
         ELSE IF current /= <<>>
              THEN section_loop(lines, i + 1,
                      <<[current[1] EXCEPT !.lines = Append(@, lines[i])]>>,
                      sections)
              ELSE section_loop(lines, i + 1, current, sections)

parse_readme(txt) ==
    LET lines == split(txt)
        t     == title_loop(lines, 1)
        j     == intro_loop(lines, t.i)
    IN  [title    |-> t.title,
         intro    |-> strip(join(SubSeq(lines, t.i, j - 1))),
         sections |-> section_loop(lines, j, <<>>, <<>>)]

----------------------------------------------------------------------------
(* build_heading_map                                                       *)

\* the number of "#" a string starts with
RECURSIVE hashes(_)
hashes(s) == IF s /= <<>> /\ Head(s) = "#" THEN 1 + hashes(Tail(s)) ELSE 0

\* re.match(r"^(#{2,6})\s+(.+)", line.strip()): <<>> when there is no match,
\* <<group 2>> when there is. The hashes are followed by whitespace only when
\* group 1 takes all of them; \s+ is greedy and gives one character back to
\* (.+) when nothing else is left for it.
heading_match(line) ==
    LET s    == strip(line)
        n    == hashes(s)
        tl   == From(s, n)
        rest == lstrip(tl, Whitespace)
    IN  IF n < 2 \/ n > 6 \/ tl = <<>> \/ ~IsSpace(Head(tl)) THEN <<>>
        ELSE IF rest /= <<>> THEN <<rest>>
        ELSE IF Len(tl) >= 2 THEN <<<<tl[Len(tl)]>>>>
        ELSE <<>>

\* the assignments heading_map[slugify(m.group(2))] = target that one scan
\* of text.split("\n") makes, in order
heading_regs(txt, target) ==
    LET matched == SelectSeq(split(txt), LAMBDA l : heading_match(l) /= <<>>)
    IN  [k \in 1..Len(matched) |->
            [key |-> slugify(heading_match(matched[k])[1]), target |-> target]]

\* a loop body that leaves out heading_map[section["slug"]] = section["slug"]
section_regs_no_own(section) == heading_regs(section.content, section.slug)

\* the assignments of one iteration of `for section in sections`
section_regs(section) ==
    <<[key |-> section.slug, target |-> section.slug]>>
        \o heading_regs(section.content, section.slug)

RECURSIVE sections_regs(_)
sections_regs(sections) ==
    IF sections = <<>> THEN <<>>
    ELSE section_regs(Head(sections)) \o sections_regs(Tail(sections))

\* every assignment to heading_map, in execution order
registrations(rd) == heading_regs(rd.intro, None) \o sections_regs(rd.sections)

\* a dict that keeps the value a key already has: d.setdefault(k, v)
dict_set_keep_first(d, k, v) ==
    [x \in DOMAIN d \cup {k} |-> IF x \in DOMAIN d THEN d[x] ELSE v]

\* d[k] = v on a dict
dict_set(d, k, v) == [x \in DOMAIN d \cup {k} |-> IF x = k THEN v ELSE d[x]]

RECURSIVE dict_assign(_, _)
dict_assign(d, regs) ==
    IF regs = <<>> THEN d
    ELSE dict_assign(dict_set(d, Head(regs).key, Head(regs).target), Tail(regs))

\* heading_map = {} is the function of empty domain
build_heading_map(rd) == dict_assign(<<>>, registrations(rd))

----------------------------------------------------------------------------
(* fix_anchor_links                                                        *)

\* the index of the first character of s at or after i that is c; Len(s) + 1
\* when there is none
RECURSIVE find(_, _, _)
find(s, c, i) ==
    IF i > Len(s) THEN Len(s) + 1
    ELSE IF s[i] = c THEN i
    ELSE find(s, c, i + 1)

\* a pattern whose "#" is optional: \[([^\]]+)\]\(#?([^)]+)\)
match_at_optional_hash(s, i) ==
    LET j == find(s, "]", i + 1)
        h == IF j + 2 <= Len(s) /\ s[j + 2] = "#" THEN 1 ELSE 0
        k == find(s, ")", j + 2 + h)
    IN  IF /\ i <= Len(s) /\ s[i] = "["
           /\ j <= Len(s) /\ j > i + 1
           /\ j + 1 <= Len(s) /\ s[j + 1] = "("
           /\ k <= Len(s) /\ k > j + 2 + h
        THEN << [text   |-> SubSeq(s, i + 1, j - 1),
                 anchor |-> SubSeq(s, j + 2 + h, k - 1),
                 full   |-> SubSeq(s, i, k),
                 end    |-> k] >>
        ELSE <<>>

\* the match of r"\[([^\]]+)\]\(#([^)]+)\)" that starts at index i of s:
\* <<>> when there is none, else its groups, its text and its last index.
\* [^\]]+ runs to the first "]" and [^)]+ to the first ")"; both classes take
\* newlines and brackets.
match_at(s, i) ==
    LET j == find(s, "]", i + 1)
        k == find(s, ")", j + 3)
    IN  IF /\ i <= Len(s) /\ s[i] = "["
           /\ j <= Len(s) /\ j > i + 1
           /\ j + 2 <= Len(s) /\ s[j + 1] = "(" /\ s[j + 2] = "#"
           /\ k <= Len(s) /\ k > j + 3
        THEN << [text   |-> SubSeq(s, i + 1, j - 1),
                 anchor |-> SubSeq(s, j + 3, k - 1),
                 full   |-> SubSeq(s, i, k),
                 end    |-> k] >>
        ELSE <<>>

\* a replace_link that tests for the homepage before it tests for the same page
replace_link_home_first(m, cur, hmap) ==
    IF m.anchor \notin DOMAIN hmap THEN m.text
    ELSE IF hmap[m.anchor] = None
         THEN <<"[">> \o m.text \o <<"]", "(", "/", "#">> \o m.anchor \o <<")">>
    ELSE IF hmap[m.anchor] = cur THEN m.full
    ELSE <<"[">> \o m.text \o <<"]", "(", "@", "/">> \o hmap[m.anchor]
             \o <<".", "m", "d", "#">> \o m.anchor \o <<")">>

\* replace_link(match), with the closure's current_slug and heading_map
replace_link(m, cur, hmap) ==
    IF m.anchor \notin DOMAIN hmap THEN m.text
    ELSE IF hmap[m.anchor] = cur THEN m.full
    ELSE IF hmap[m.anchor] = None
         THEN <<"[">> \o m.text \o <<"]", "(", "/", "#">> \o m.anchor \o <<")">>
    ELSE <<"[">> \o m.text \o <<"]", "(", "@", "/">> \o hmap[m.anchor]
             \o <<".", "m", "d", "#">> \o m.anchor \o <<")">>

\* re.sub from index i on: leftmost matches, not overlapping, the
\* replacement is not scanned again
RECURSIVE sub_links(_, _, _, _)
sub_links(s, i, cur, hmap) ==
    IF i > Len(s) THEN <<>>
    ELSE IF match_at(s, i) /= <<>>
         THEN replace_link(match_at(s, i)[1], cur, hmap)
                  \o sub_links(s, match_at(s, i)[1].end + 1, cur, hmap)
         ELSE <<s[i]>> \o sub_links(s, i + 1, cur, hmap)

fix_anchor_links(c, cur, hmap) == sub_links(c, 1, cur, hmap)

----------------------------------------------------------------------------
(* escape_toml, short_title, generate_config, generate_content             *)

\* s.replace(c, rep) for a one-character c
RECURSIVE replace(_, _, _)
replace(s, c, rep) ==
    IF s = <<>> THEN <<>>
    ELSE (IF Head(s) = c THEN rep ELSE <<Head(s)>>) \o replace(Tail(s), c, rep)

\* s.replace("\\", "\\\\").replace('"', '\\"').replace("\n", " ").strip()
escape_toml(s) ==
    strip(replace(replace(replace(s, "\\", <<"\\", "\\">>),
                          "\"", <<"\\", "\"">>),
                  "\n", <<" ">>))

\* title.split(): the maximal runs of non-whitespace characters
RECURSIVE words(_)
words(s) ==
    LET t == lstrip(s, Whitespace)
        n == CHOOSE k \in 0..Len(t) :
                 /\ \A x \in 1..k : ~IsSpace(t[x])
                 /\ k < Len(t) => IsSpace(t[k + 1])
    IN  IF t = <<>> THEN <<>>
        ELSE <<SubSeq(t, 1, n)>> \o words(From(t, n))

\* " ".join(ws)
RECURSIVE join_words(_)
join_words(ws) ==
    IF ws = <<>> THEN <<>>
    ELSE IF Len(ws) = 1 THEN ws[1]
    ELSE ws[1] \o <<" ">> \o join_words(Tail(ws))

max_words == 2

short_title(title) ==
    IF Len(words(title)) <= max_words THEN title
    ELSE join_words(SubSeq(words(title), 1, max_words))

S_https     == <<"h", "t", "t", "p", "s", ":", "/", "/">>
S_github_io == <<".", "g", "i", "t", "h", "u", "b", ".", "i", "o", "/">>
S_github    == S_https \o <<"g", "i", "t", "h", "u", "b", ".", "c", "o", "m", "/">>
S_localhost == <<"h", "t", "t", "p", ":", "/", "/", "l", "o", "c", "a", "l",
                 "h", "o", "s", "t", ":", "1", "1", "1", "1">>

\* x or y on str
Or(x, y) == IF x /= <<>> THEN x ELSE y

\* readme_data["intro"][:200]
DescriptionLen == 200

Take(s, n) == IF Len(s) <= n THEN s ELSE SubSeq(s, 1, n)

\* metadata.get("author_name", metadata.get("github_owner", "")): a key that
\* is not set is None here
author_of(md) ==
    IF md.author_name /= None THEN md.author_name ELSE md.github_owner

\* author_url as both generate_config compute it
author_url_of(md) ==
    LET w == IF md.author_website /= None THEN md.author_website ELSE <<>>
    IN  IF w = <<>> /\ md.github_owner /= <<>>
        THEN S_github \o md.github_owner
        ELSE w

\* the strings build.py's generate_config puts between the double quotes of
\* config.toml
generate_config(md, rd) ==
    [kind        |-> "generated",
     base_url    |-> IF md.github_owner /= <<>>
                     THEN S_https \o md.github_owner \o S_github_io \o md.name
                     ELSE S_localhost,
     title       |-> escape_toml(Or(rd.title, md.name)),
     description |-> escape_toml(Or(md.description, Take(rd.intro, DescriptionLen))),
     github_url  |-> md.github_url,
     author      |-> escape_toml(author_of(md)),
     author_url  |-> author_url_of(md)]

\* build-action.py's generate_config: INPUT_BASE_URL overrides base_url
generate_config_action(md, rd, input_base_url) ==
    [generate_config(md, rd) EXCEPT
        !.base_url = IF input_base_url /= <<>> THEN input_base_url ELSE @]

S_index_md == <<"_", "i", "n", "d", "e", "x", ".", "m", "d">>
S_md       == <<".", "m", "d">>

\* the page generate_content writes for the i-th section (i from 0)
section_page(section, i, hmap) ==
    [title       |-> escape_toml(section.title),
     weight      |-> i + 1,
     short_title |-> escape_toml(short_title(section.title)),
     body        |-> fix_anchor_links(section.content, section.slug, hmap)]

\* the write_text calls of the section loop, from section i + 1 on, on the
\* files of the content directory
RECURSIVE write_pages(_, _, _, _)
write_pages(files, sections, i, hmap) ==
    IF i >= Len(sections) THEN files
    ELSE write_pages(dict_set(files, sections[i + 1].slug \o S_md,
                              section_page(sections[i + 1], i, hmap)),
                     sections, i + 1, hmap)

\* the files of the content directory after generate_content: the directory
\* is new (removed first if it was there), _index.md, then one file per section
generate_content(rd) ==
    LET hmap  == build_heading_map(rd)
        index == [title |-> escape_toml(rd.title),
                  body  |-> fix_anchor_links(rd.intro, None, hmap)]
    IN  [kind  |-> "dir",
         files |-> write_pages(dict_set(<<>>, S_index_md, index),
                               rd.sections, 0, hmap)]

----------------------------------------------------------------------------
(* Specification SpecSlugify: slugify applied to every short text.         *)

MaxTextLen == 4

SlugAlphabet == {"a", "A", "1", " ", "-", "_", "!", "é"}

InitSlugify ==
    /\ pc = "start"
    /\ text \in SeqsUpTo(SlugAlphabet, MaxTextLen)
    /\ slug = None
    /\ readme = None
    /\ readme_data = None
    /\ heading_map = None
    /\ content = None
    /\ current_slug = None
    /\ rewritten = None
    /\ argv = None
    /\ fs = None
    /\ fs0 = None
    /\ metadata = None
    /\ exit_code = None

CallSlugify ==
    /\ pc = "start"
    /\ slug' = slugify(text)
    /\ pc' = "done"
    /\ UNCHANGED <<text, readme, readme_data, heading_map, links, build>>

NextSlugify == CallSlugify

SpecSlugify == InitSlugify /\ [][NextSlugify]_vars

----------------------------------------------------------------------------
(* Slug shape                                                              *)

SlugChar == {"a", "b", "c", "d", "m", "t", "x", "1"}   \* members of [a-z0-9]

\* ^[a-z0-9]+(-[a-z0-9]+)*$ or empty
MatchesSlugShape(s) ==
    /\ \A i \in 1..Len(s) : s[i] \in SlugChar \cup {"-"}
    /\ s /= <<>> => (s[1] /= "-" /\ s[Len(s)] /= "-")
    /\ \A i \in 1..(Len(s) - 1) : ~(s[i] = "-" /\ s[i + 1] = "-")

\* C7: for every input text the output of slugify is empty or matches
\* ^[a-z0-9]+(-[a-z0-9]+)*$ : only [a-z0-9-], no leading or trailing hyphen,
\* no two consecutive hyphens.
C7_SlugShape == pc = "done" => MatchesSlugShape(slug)

\* C8: slugify is idempotent: slugify(slugify(x)) = slugify(x).
C8_SlugifyIdempotent == pc = "done" => slugify(slug) = slug

\* a text whose slug differs from it was slugified (spaces, case and
\* punctuation were rewritten)
C8_Witness ==
    /\ pc = "done"
    /\ text = <<"A", " ", "!", "a">>
    /\ slug = <<"a", "-", "a">>

----------------------------------------------------------------------------
(* Specification SpecParse: parse_readme, then build_heading_map, on every *)
(* README of at most MaxLines lines drawn from LineShapes.                 *)

MaxLines == 4

LineShapes ==
    { <<>>,                                   \* a blank line
      <<"a">>,                                \* text
      <<" ", "x", " ">>,                      \* text with blanks around it
      <<"#", " ", "T">>,                      \* "# T"
      <<"#", "#", " ", "A">>,                 \* "## A"
      <<" ", "#", "#", " ", "b", " ">>,       \* " ## b "
      <<"#", "#", "#", " ", "a">>,            \* "### a"
      <<"#", "#", "\t", "a">> }               \* "##<TAB>a": level 2 for the
                                              \* heading pattern, no section

\* Example 1 of the README parser: "# T\n\na\n\n## A\n\nx\n\n## B\n\nc"
Example1 ==
    join(<< <<"#", " ", "T">>, <<>>, <<"a">>, <<>>, <<"#", "#", " ", "A">>, <<>>,
            <<"x">>, <<>>, <<"#", "#", " ", "B">>, <<>>, <<"c">> >>)

Docs == {join(ls) : ls \in SeqsUpTo(LineShapes, MaxLines)} \cup {Example1}

InitParse ==
    /\ pc = "start"
    /\ readme \in Docs
    /\ readme_data = None
    /\ heading_map = None
    /\ text = None
    /\ slug = None
    /\ content = None
    /\ current_slug = None
    /\ rewritten = None
    /\ argv = None
    /\ fs = None
    /\ fs0 = None
    /\ metadata = None
    /\ exit_code = None

CallParseReadme ==
    /\ pc = "start"
    /\ readme_data' = parse_readme(readme)
    /\ pc' = "parsed"
    /\ UNCHANGED <<readme, heading_map, text, slug, links, build>>

CallBuildHeadingMap ==
    /\ pc = "parsed"
    /\ heading_map' = build_heading_map(readme_data)
    /\ pc' = "mapped"
    /\ UNCHANGED <<readme, readme_data, text, slug, links, build>>

NextParse == CallParseReadme \/ CallBuildHeadingMap

SpecParse == InitParse /\ [][NextParse]_vars

----------------------------------------------------------------------------
(* The README parser, stated over the lines of the document                *)

Lines == split(readme)

TitleIdx == {i \in 1..Len(Lines) : is_title_line(Lines[i])}
H2Idx    == {i \in 1..Len(Lines) : is_h2_line(Lines[i])}

Min(S) == CHOOSE x \in S : \A y \in S : x <= y

\* the text of a heading line after its `n` marker characters
HeadingText(line, n) == strip(From(strip(line), n))

\* one section per "## " line at or after line `start`, in line order, with
\* the lines up to the next "## " line (or the end) as its content
SectionsFrom(start) ==
    LET H     == {i \in H2Idx : i >= start}
        n     == Cardinality(H)
        h(k)  == CHOOSE i \in H : Cardinality({j \in H : j < i}) = k - 1
        e(k)  == IF k < n THEN h(k + 1) - 1 ELSE Len(Lines)
    IN  [k \in 1..n |->
            [title   |-> HeadingText(Lines[h(k)], 3),
             slug    |-> slugify(HeadingText(Lines[h(k)], 3)),
             content |-> strip(join(SubSeq(Lines, h(k) + 1, e(k))))]]

\* the lines from `start` up to the first "## " line at or after it
IntroFrom(start) ==
    LET H == {i \in H2Idx : i >= start}
        e == IF H = {} THEN Len(Lines) ELSE Min(H) - 1
    IN  strip(join(SubSeq(Lines, start, e)))

\* C1: a document without a title line parses to an empty title, the intro
\* collected from the first line of the document up to the first "## " line
\* (the whole body when there is none), and one section per "## " line.
C1_NoTitleIntroFromTop ==
    (pc /= "start" /\ TitleIdx = {}) =>
        /\ readme_data.title = <<>>
        /\ readme_data.intro = IntroFrom(1)
        /\ readme_data.sections = SectionsFrom(1)

\* the title the data model promises: the first "# " heading, or empty when
\* none occurs before the first "## " heading
ExpectedTitle ==
    IF TitleIdx /= {} /\ (H2Idx = {} \/ Min(TitleIdx) < Min(H2Idx))
    THEN HeadingText(Lines[Min(TitleIdx)], 2)
    ELSE <<>>

\* C2: the title is the first top-level heading, or empty if none occurs
\* before the first "## " heading; a "# " line that only appears after a
\* "## " line is not the title and the "## " sections before it are kept.
C2_TitleBeforeFirstSection ==
    pc /= "start" =>
        /\ readme_data.title = ExpectedTitle
        /\ \A t \in TitleIdx : \A h \in H2Idx :
               h < t => \E k \in 1..Len(readme_data.sections) :
                            readme_data.sections[k].title = HeadingText(Lines[h], 3)

\* the line after the title line, where the intro starts; past the end when
\* the title loop found no title line
IntroStart == IF TitleIdx = {} THEN Len(Lines) + 1 ELSE Min(TitleIdx) + 1

\* C3: the sections are exactly, in source order, one per "## " line from the
\* line that ends the intro onward, each with the trimmed heading text as
\* title, slugify(title) as slug and the trimmed join of the lines up to the
\* next "## " line or the end as content.
C3_SectionsInOrder ==
    pc /= "start" => readme_data.sections = SectionsFrom(IntroStart)

\* Example 1 parsed: two sections in heading order with trimmed contents
C3_Witness ==
    /\ pc = "parsed"
    /\ readme = Example1
    /\ readme_data.title = <<"T">>
    /\ readme_data.intro = <<"a">>
    /\ readme_data.sections =
          << [title |-> <<"A">>, slug |-> <<"a">>, content |-> <<"x">>],
             [title |-> <<"B">>, slug |-> <<"b">>, content |-> <<"c">>] >>

----------------------------------------------------------------------------
(* The heading index                                                       *)

\* the text `txt` has a level 2-6 heading line whose slug is `key`
HasSubHeading(txt, key) ==
    \E i \in 1..Len(split(txt)) :
        /\ heading_match(split(txt)[i]) /= <<>>
        /\ slugify(heading_match(split(txt)[i])[1]) = key

----------------------------------------------------------------------------
(* Registration order of build_heading_map                                 *)

\* the indices of the lines of txt that are level 2-6 headings
HeadingLines(txt) ==
    {i \in 1..Len(split(txt)) : heading_match(split(txt)[i]) /= <<>>}

HeadingSlug(txt, i) == slugify(heading_match(split(txt)[i])[1])

\* the headings of the parsed README with their place: sec 0 is the intro and
\* sec k the k-th section, line 0 the section's own heading and line i the
\* i-th line of the intro or of the section's content
IntroHeadings ==
    {[sec |-> 0, line |-> i, key |-> HeadingSlug(readme_data.intro, i),
      target |-> None] : i \in HeadingLines(readme_data.intro)}

OwnHeadings ==
    {[sec |-> k, line |-> 0, key |-> readme_data.sections[k].slug,
      target |-> readme_data.sections[k].slug] :
        k \in 1..Len(readme_data.sections)}

SubHeadings ==
    UNION {{[sec |-> k, line |-> i,
             key |-> HeadingSlug(readme_data.sections[k].content, i),
             target |-> readme_data.sections[k].slug] :
                i \in HeadingLines(readme_data.sections[k].content)} :
           k \in 1..Len(readme_data.sections)}

Headings == IntroHeadings \cup OwnHeadings \cup SubHeadings

\* h is registered before g: intro first, then the sections in source order,
\* each with its own heading before its sub-headings
Before(h, g) == h.sec < g.sec \/ (h.sec = g.sec /\ h.line < g.line)

\* C12: build_heading_map registers the level 2-6 headings of the intro
\* (target: the homepage), then for each section in source order its own slug
\* and the level 2-6 sub-headings of its content (target: that section's
\* slug); the keys of the returned map are exactly the slugs of these
\* headings and the value of a key is the target of the last registration
\* made under it.
C12_LastRegistrationWins ==
    pc = "mapped" =>
        /\ DOMAIN heading_map = {h.key : h \in Headings}
        /\ \A h \in Headings :
              (\A g \in Headings : g.key = h.key => ~Before(h, g))
                  => heading_map[h.key] = h.target

\* a heading of the intro and a later section have the same slug, and the
\* section's registration is the one the map keeps
C12_Witness ==
    /\ pc = "mapped"
    /\ \E h \in IntroHeadings : \E g \in OwnHeadings :
          /\ h.key = g.key
          /\ heading_map[g.key] = g.target
          /\ \A f \in Headings : f.key = g.key => ~Before(g, f)

----------------------------------------------------------------------------
(* Specification SpecLinks: fix_anchor_links on every content of at most   *)
(* MaxPieces pieces, every current page and every small heading map.       *)

MaxPieces == 3

Pieces ==
    { <<"x">>,
      <<"[", "t", "]", "(", "#", "a", ")">>,      \* [t](#a)
      <<"[", "T", "]", "(", "#", "b", ")">>,      \* [T](#b)
      <<"[", "t", "]", "(", "a", ")">>,           \* [t](a): a relative path
      <<"[">>,
      <<"]", "(", "#", "a", ")">> }               \* ](#a)

RECURSIVE concat(_)
concat(ps) == IF ps = <<>> THEN <<>> ELSE Head(ps) \o concat(Tail(ps))

Contents == {concat(ps) : ps \in SeqsUpTo(Pieces, MaxPieces)}

PageSlugs == {<<"a">>, <<"b">>}

\* the dicts from some of the anchors a, b to the homepage or a page
HeadingMaps ==
    UNION {[D -> PageSlugs \cup {None}] : D \in SUBSET {<<"a">>, <<"b">>}}

InitLinks ==
    /\ pc = "start"
    /\ content \in Contents
    /\ current_slug \in PageSlugs \cup {None}
    /\ heading_map \in HeadingMaps
    /\ rewritten = None
    /\ text = None
    /\ slug = None
    /\ readme = None
    /\ readme_data = None
    /\ argv = None
    /\ fs = None
    /\ fs0 = None
    /\ metadata = None
    /\ exit_code = None

CallFixAnchorLinks ==
    /\ pc = "start"
    /\ rewritten' = fix_anchor_links(content, current_slug, heading_map)
    /\ pc' = "done"
    /\ UNCHANGED <<content, current_slug, heading_map, text, slug, readme,
                   readme_data, build>>

NextLinks == CallFixAnchorLinks

SpecLinks == InitLinks /\ [][NextLinks]_vars

----------------------------------------------------------------------------
(* The anchor link rewriter, stated over the positions of the content      *)

\* a link of the shape [text](#anchor) starts at index i of s and ends at k:
\* a non-empty text without "]", a non-empty anchor without ")"
ShapeBetween(s, i, k) ==
    \E j \in (i + 2)..(k - 4) :
        /\ s[i] = "[" /\ s[j] = "]" /\ s[j + 1] = "(" /\ s[j + 2] = "#" /\ s[k] = ")"
        /\ \A x \in (i + 1)..(j - 1) : s[x] /= "]"
        /\ \A x \in (j + 3)..(k - 1) : s[x] /= ")"

ShapeAt(s, i) == \E k \in i..Len(s) : ShapeBetween(s, i, k)

HasFragmentLink(s) == \E i \in 1..Len(s) : ShapeAt(s, i)

\* what the four cases make of the link [t](#a) on page cur
ExpectedLink(t, a, cur, hmap) ==
    IF a \notin DOMAIN hmap THEN t
    ELSE IF hmap[a] = cur THEN <<"[">> \o t \o <<"]", "(", "#">> \o a \o <<")">>
    ELSE IF hmap[a] = None
         THEN <<"[">> \o t \o <<"]", "(", "/", "#">> \o a \o <<")">>
    ELSE <<"[">> \o t \o <<"]", "(", "@", "/">> \o hmap[a]
             \o <<".", "m", "d", "#">> \o a \o <<")">>

\* C5: each link [text](#anchor) is replaced by the first matching case:
\* anchor not in the map -> the text; target = current page -> unchanged;
\* target = homepage -> [text](/#anchor); else [text](@/<target>.md#anchor);
\* text and anchor are kept verbatim. For the first link of the content,
\* at i..k with nothing of the shape starting before it: the result is the
\* content before i, the case's replacement, and the rewriting of the rest.
C5_LinkCases ==
    pc = "done" =>
        \A i \in 1..Len(content) : \A k \in i..Len(content) :
            (/\ ShapeBetween(content, i, k)
             /\ \A x \in 1..(i - 1) : ~ShapeAt(content, x)) =>
                LET j == CHOOSE y \in (i + 2)..(k - 4) :
                             /\ content[y] = "]"
                             /\ \A x \in (i + 1)..(y - 1) : content[x] /= "]"
                IN  rewritten =
                        SubSeq(content, 1, i - 1)
                        \o ExpectedLink(SubSeq(content, i + 1, j - 1),
                                        SubSeq(content, j + 3, k - 1),
                                        current_slug, heading_map)
                        \o fix_anchor_links(SubSeq(content, k + 1, Len(content)),
                                            current_slug, heading_map)

\* Example 2 and Example 4 in one content: on page a, a link to an anchor of
\* page b and a link to an anchor of the homepage
C5_Witness ==
    /\ pc = "done"
    /\ current_slug = <<"a">>
    /\ heading_map = [x \in {<<"a">>, <<"b">>} |->
                         IF x = <<"a">> THEN None ELSE <<"b">>]
    /\ content = <<"x", "[", "T", "]", "(", "#", "b", ")",
                   "[", "t", "]", "(", "#", "a", ")">>
    /\ rewritten = <<"x", "[", "T", "]", "(", "@", "/", "b", ".", "m", "d", "#", "b", ")",
                     "[", "t", "]", "(", "/", "#", "a", ")">>

\* C6: content without a link of the shape [text](#anchor) is returned
\* unchanged, links with any other target included, for every current_slug
\* and heading_map.
C6_OtherLinksUntouched ==
    (pc = "done" /\ ~HasFragmentLink(content)) => rewritten = content

\* a relative-path link next to the pieces of a fragment link came back as is
C6_Witness ==
    /\ pc = "done"
    /\ content = <<"[", "t", "]", "(", "a", ")", "]", "(", "#", "a", ")">>
    /\ <<"a">> \notin DOMAIN heading_map
    /\ rewritten = content

----------------------------------------------------------------------------
(* Specification SpecBuild: one run of build.py or of build-action.py      *)
(* against a target repository.                                            *)

ReadmeAbsent     == <<"Absent">>        \* no README.md
ReadmeUnreadable == <<"Unreadable">>    \* exists() is true, read_text() raises

Absent == [kind |-> "absent"]

\* README.md texts:  "# T\n[t](#b)\n## A\n[t](#b)\n## B\nx",  "a"  and
\* "# T\"\n## A b c\nx"
Readmes ==
    { join(<< <<"#", " ", "T">>, <<"[", "t", "]", "(", "#", "b", ")">>,
              <<"#", "#", " ", "A">>, <<"[", "t", "]", "(", "#", "b", ")">>,
              <<"#", "#", " ", "B">>, <<"x">> >>),
      <<"a">>,
      join(<< <<"#", " ", "T", "\"">>,
              <<"#", "#", " ", "A", " ", "b", " ", "c">>, <<"x">> >>) }

\* a repository that holds no generated file
FreshRepo ==
    [exists |-> TRUE, git |-> TRUE, readme |-> ReadmeAbsent,
     templates |-> "absent", sass |-> "absent", static |-> "absent",
     config |-> Absent, content |-> Absent, workflow |-> "absent",
     justfile |-> "absent", gitignore |-> "absent", public |-> "absent",
     build_dir |-> Absent]

\* a repository that holds the files of an earlier run and files of its own
BuiltRepo ==
    [FreshRepo EXCEPT
        !.templates = "old", !.sass = "old", !.static = "user",
        !.config = [kind |-> "old"],
        !.content = [kind |-> "dir",
                     files |-> dict_set(<<>>, <<"o", "l", "d">> \o S_md,
                                        [title |-> <<"o", "l", "d">>])],
        !.workflow = "old", !.justfile = "other", !.gitignore = "other",
        !.public = "old",
        !.build_dir = [kind |-> "dir", templates |-> "old", sass |-> "old",
                       static |-> "dir", config |-> [kind |-> "old"],
                       content |-> Absent]]

MissingRepo == [FreshRepo EXCEPT !.exists = FALSE, !.git = FALSE]

Repos ==
    {MissingRepo}
    \cup {[r EXCEPT !.readme = d, !.git = g] :
            r \in {FreshRepo, BuiltRepo},
            d \in Readmes \cup {ReadmeAbsent, ReadmeUnreadable},
            g \in BOOLEAN}

\* what get_repo_metadata can return: no GitHub remote; a remote and a
\* profile whose texts hold quotes, backslashes and newlines; a plain one
Metadatas ==
    { [name |-> <<"a">>, github_owner |-> <<>>, github_url |-> <<>>,
       description |-> <<>>, author_name |-> None, author_website |-> None],
      [name |-> <<"a">>, github_owner |-> <<"b">>,
       github_url |-> S_github \o <<"b", "/", "a">>,
       description |-> <<"d", "\"", "\n", "\\">>,
       author_name |-> <<"A", "\"">>,
       author_website |-> S_https \o <<"x", "\"">>],
      [name |-> <<"a">>, github_owner |-> <<"b">>,
       github_url |-> S_github \o <<"b", "/", "a">>,
       description |-> <<"d">>, author_name |-> None, author_website |-> None] }

Argvs ==
    {[script |-> "build.py", clean |-> c, no_build |-> n, input_base_url |-> <<>>] :
        c \in BOOLEAN, n \in BOOLEAN}
    \cup {[script |-> "build-action.py", clean |-> FALSE, no_build |-> TRUE,
           input_base_url |-> u] : u \in {<<>>, <<"u">>}}

InitBuild ==
    /\ argv \in Argvs
    /\ fs \in Repos
    /\ fs0 = fs
    /\ pc = IF argv.script = "build.py" THEN "check_repo" ELSE "action_check_source"
    /\ metadata = None
    /\ readme_data = None
    /\ exit_code = None
    /\ text = None
    /\ slug = None
    /\ readme = None
    /\ heading_map = None
    /\ content = None
    /\ current_slug = None
    /\ rewritten = None

other == <<text, slug, readme, heading_map, content, current_slug, rewritten, fs0>>

\* sys.exit(code), a return from main, or an uncaught exception (status 1)
Exit(code) == pc' = "exit" /\ exit_code' = code

(* ---- build.py main ---- *)

\* lines 27-35: a missing repo_path is cloned from the URL the user types;
\* an empty URL or a failed clone ends the run
CheckRepo ==
    /\ pc = "check_repo"
    /\ IF fs.exists
       THEN pc' = "check_git" /\ UNCHANGED <<fs, exit_code>>
       ELSE \/ Exit(1) /\ UNCHANGED fs
            \/ \E d \in Readmes \cup {ReadmeAbsent} :
                  /\ fs' = [FreshRepo EXCEPT !.readme = d]
                  /\ pc' = "check_git"
                  /\ UNCHANGED exit_code
    /\ UNCHANGED <<argv, metadata, readme_data, other>>

\* lines 37-43
CheckGit ==
    /\ pc = "check_git"
    /\ IF ~fs.git THEN Exit(1)
       ELSE pc' = (IF argv.clean THEN "clean" ELSE "check_readme")
            /\ UNCHANGED exit_code
    /\ UNCHANGED <<argv, fs, metadata, readme_data, other>>

\* clean(repo_path), then return
Clean ==
    /\ pc = "clean"
    /\ fs' = [fs EXCEPT !.templates = "absent", !.sass = "absent",
                        !.content = Absent, !.public = "absent",
                        !.config = Absent]
    /\ Exit(0)
    /\ UNCHANGED <<argv, metadata, readme_data, other>>

\* lines 45-53: README.md must exist; without zola the build step is skipped
CheckReadme ==
    /\ pc = "check_readme"
    /\ IF fs.readme = ReadmeAbsent
       THEN Exit(1) /\ UNCHANGED argv
       ELSE /\ pc' = "metadata"
            /\ \E zola \in BOOLEAN :
                  argv' = [argv EXCEPT !.no_build = @ \/ ~zola]
            /\ UNCHANGED exit_code
    /\ UNCHANGED <<fs, metadata, readme_data, other>>

\* line 57: get_repo_metadata reads git and the GitHub API, writes nothing
GetMetadata ==
    /\ pc = "metadata"
    /\ metadata' \in Metadatas
    /\ pc' = "parse"
    /\ UNCHANGED <<argv, fs, readme_data, exit_code, other>>

\* a parse step that takes a README it cannot read for an empty one
ParseReadmeLenient ==
    /\ pc = "parse"
    /\ readme_data' = parse_readme(IF fs.readme = ReadmeUnreadable THEN <<>>
                                   ELSE fs.readme)
    /\ pc' = "copy_templates"
    /\ UNCHANGED <<argv, fs, metadata, exit_code, other>>

\* line 58: read_text() raises on a file that cannot be read
ParseReadme ==
    /\ pc = "parse"
    /\ IF fs.readme = ReadmeUnreadable
       THEN Exit(1) /\ UNCHANGED readme_data
       ELSE /\ readme_data' = parse_readme(fs.readme)
            /\ pc' = "copy_templates"
            /\ UNCHANGED exit_code
    /\ UNCHANGED <<argv, fs, metadata, other>>

\* copy_template_files(repo_path)
CopyTemplateFiles ==
    /\ pc = "copy_templates"
    /\ fs' = [fs EXCEPT !.templates = "template", !.sass = "template",
                        !.static = IF @ = "absent" THEN "template"
                                   ELSE "user+template"]
    /\ pc' = "generate_config"
    /\ UNCHANGED <<argv, metadata, readme_data, exit_code, other>>

GenerateConfig ==
    /\ pc = "generate_config"
    /\ fs' = [fs EXCEPT !.config = generate_config(metadata, readme_data)]
    /\ pc' = "generate_content"
    /\ UNCHANGED <<argv, metadata, readme_data, exit_code, other>>

\* generate_content without `if content_dir.exists(): shutil.rmtree(...)`:
\* the files the directory holds stay unless they are written again
GenerateContentKeepOld ==
    /\ pc = "generate_content"
    /\ LET new == generate_content(readme_data).files
           old == IF fs.content.kind = "dir" THEN fs.content.files ELSE <<>>
       IN  fs' = [fs EXCEPT !.content =
                    [kind  |-> "dir",
                     files |-> [f \in DOMAIN old \cup DOMAIN new |->
                                  IF f \in DOMAIN new THEN new[f] ELSE old[f]]]]
    /\ pc' = "setup"
    /\ UNCHANGED <<argv, metadata, readme_data, exit_code, other>>

GenerateContent ==
    /\ pc = "generate_content"
    /\ fs' = [fs EXCEPT !.content = generate_content(readme_data)]
    /\ pc' = "setup"
    /\ UNCHANGED <<argv, metadata, readme_data, exit_code, other>>

\* setup_github_actions, setup_justfile, setup_gitignore
Setup ==
    /\ pc = "setup"
    /\ fs' = [fs EXCEPT
          !.workflow  = "template",
          !.justfile  = IF @ = "absent" THEN "docs"
                        ELSE IF @ = "other" THEN "other+docs" ELSE @,
          !.gitignore = IF @ = "absent" THEN "public"
                        ELSE IF @ = "other" THEN "other+public" ELSE @]
    /\ pc' = "zola_build"
    /\ UNCHANGED <<argv, metadata, readme_data, exit_code, other>>

\* lines 70-83
ZolaBuild ==
    /\ pc = "zola_build"
    /\ IF argv.no_build THEN Exit(0) /\ UNCHANGED fs
       ELSE \/ Exit(1) /\ UNCHANGED fs
            \/ Exit(0) /\ fs' = [fs EXCEPT !.public = "built"]
    /\ UNCHANGED <<argv, metadata, readme_data, other>>

(* ---- build-action.py main ---- *)

\* lines 22-29
ActionCheckSource ==
    /\ pc = "action_check_source"
    /\ IF ~fs.exists \/ fs.readme = ReadmeAbsent THEN Exit(1)
       ELSE pc' = "action_metadata" /\ UNCHANGED exit_code
    /\ UNCHANGED <<argv, fs, metadata, readme_data, other>>

\* line 34: no author_name, no author_website in this script's metadata
ActionGetMetadata ==
    /\ pc = "action_metadata"
    /\ metadata' \in {md \in Metadatas : md.author_name = None
                                         /\ md.author_website = None}
    /\ pc' = "action_parse"
    /\ UNCHANGED <<argv, fs, readme_data, exit_code, other>>

\* line 35
ActionParseReadme ==
    /\ pc = "action_parse"
    /\ IF fs.readme = ReadmeUnreadable
       THEN Exit(1) /\ UNCHANGED readme_data
       ELSE /\ readme_data' = parse_readme(fs.readme)
            /\ pc' = "action_generate"
            /\ UNCHANGED exit_code
    /\ UNCHANGED <<argv, fs, metadata, other>>

\* lines 40-52: the build directory is removed and made again, then filled
ActionGenerate ==
    /\ pc = "action_generate"
    /\ fs' = [fs EXCEPT !.build_dir =
                 [kind |-> "dir", templates |-> "template", sass |-> "template",
                  static |-> "dir",
                  config |-> generate_config_action(metadata, readme_data,
                                                    argv.input_base_url),
                  content |-> generate_content(readme_data)]]
    /\ Exit(0)
    /\ UNCHANGED <<argv, metadata, readme_data, other>>

NextBuild ==
    \/ CheckRepo \/ CheckGit \/ Clean \/ CheckReadme \/ GetMetadata
    \/ ParseReadme \/ CopyTemplateFiles \/ GenerateConfig \/ GenerateContent
    \/ Setup \/ ZolaBuild
    \/ ActionCheckSource \/ ActionGetMetadata \/ ActionParseReadme
    \/ ActionGenerate

SpecBuild == InitBuild /\ [][NextBuild]_vars

----------------------------------------------------------------------------
(* What the run writes                                                     *)

\* a string between double quotes in which every backslash starts an escape
\* of a backslash or of a double quote, and no double quote stands alone
RECURSIVE WellEscaped(_)
WellEscaped(v) ==
    IF v = <<>> THEN TRUE
    ELSE IF Head(v) = "\\"
         THEN Len(v) >= 2 /\ v[2] \in {"\\", "\""} /\ WellEscaped(From(v, 2))
    ELSE IF Head(v) = "\"" THEN FALSE
    ELSE WellEscaped(Tail(v))

SafeValue(v) == WellEscaped(v) /\ \A i \in 1..Len(v) : v[i] /= "\n"

ConfigSafe(c) ==
    c.kind = "generated" =>
        \A v \in {c.base_url, c.title, c.description, c.github_url, c.author,
                  c.author_url} : SafeValue(v)

\* the front matter of the pages of a content directory this run wrote
PagesSafe(dir) ==
    (dir.kind = "dir" /\ S_index_md \in DOMAIN dir.files) =>
        \A f \in DOMAIN dir.files :
            /\ SafeValue(dir.files[f].title)
            /\ f /= S_index_md => SafeValue(dir.files[f].short_title)

\* C9: every string embedded as a double-quoted value of config.toml or of a
\* page's front matter (base_url, title, description, github_url, author,
\* author_url, page title, short_title) has its backslashes and quotes
\* escaped and holds no raw newline.
C9_EmbeddedValuesEscaped ==
    /\ ConfigSafe(fs.config)
    /\ PagesSafe(fs.content)
    /\ fs.build_dir.kind = "dir" =>
           ConfigSafe(fs.build_dir.config) /\ PagesSafe(fs.build_dir.content)

\* a run that generates the site: build.py without --clean, or build-action.py
BuildInvocation == argv.script = "build-action.py" \/ ~argv.clean

\* README.md is absent or cannot be read
ReadmeMissing == ~fs.exists \/ fs.readme \in {ReadmeAbsent, ReadmeUnreadable}

\* C10 as stated: when README.md is absent or cannot be read, a build run
\* ends with a non-zero exit and nothing in the target repository or build
\* directory was created, overwritten or removed.
C10_NoOutputWithoutReadme ==
    (pc = "exit" /\ BuildInvocation /\ ReadmeMissing) =>
        /\ exit_code /= 0
        /\ fs = fs0

\* the tree `git clone` leaves at a repo_path that did not exist
ClonedWithoutReadme ==
    /\ argv.script = "build.py"
    /\ ~fs0.exists
    /\ fs = [FreshRepo EXCEPT !.readme = ReadmeAbsent]

\* C10 amended: when README.md is absent or cannot be read, a build run ends
\* with a non-zero exit and at no point has it created, overwritten or
\* removed anything, except the clone build.py made of a repo_path that did
\* not exist.
C10_NoGeneratedOutputWithoutReadme ==
    (BuildInvocation /\ ReadmeMissing) =>
        /\ fs = fs0 \/ ClonedWithoutReadme
        /\ pc = "exit" => exit_code /= 0

\* build.py on a repository that holds an earlier site and a README.md that
\* cannot be read: it passed the checks, failed in parse_readme and left the
\* earlier files alone
C10_Witness ==
    /\ pc = "exit"
    /\ exit_code = 1
    /\ argv.script = "build.py" /\ ~argv.clean
    /\ fs.git
    /\ fs.readme = ReadmeUnreadable
    /\ fs.content.kind = "dir"
    /\ fs = fs0

----------------------------------------------------------------------------
(* Specification SpecContent: parse_readme, build_heading_map and          *)
(* generate_content on every README made of the title line "# T" followed  *)
(* by at most MaxBodyLines lines drawn from BodyShapes, in a fresh target. *)

MaxBodyLines == 4

BodyShapes ==
    { <<"#", "#", " ", "A">>,                 \* "## A"
      <<"#", "#", " ", "B">>,                 \* "## B"
      <<"#", "#", "#", " ", "c">>,            \* "### c"
      <<"[", "t", "]", "(", "#", "a", ")">>,  \* "[t](#a)"
      <<"[", "t", "]", "(", "#", "c", ")">>,  \* "[t](#c)"
      <<"[", "[", "t", "]", "(", "#", "z", ")", "]", "(", "#", "c", ")">> }
                                              \* "[[t](#z)](#c)"

ContentDocs ==
    {join(<< <<"#", " ", "T">> >> \o ls) : ls \in SeqsUpTo(BodyShapes, MaxBodyLines)}

InitContent ==
    /\ pc = "start"
    /\ readme \in ContentDocs
    /\ readme_data = None
    /\ heading_map = None
    /\ text = None
    /\ slug = None
    /\ content = None
    /\ current_slug = None
    /\ rewritten = None
    /\ argv = None
    /\ fs = [FreshRepo EXCEPT !.readme = readme]
    /\ fs0 = fs
    /\ metadata = None
    /\ exit_code = None

CallGenerateContent ==
    /\ pc = "mapped"
    /\ fs' = [fs EXCEPT !.content = generate_content(readme_data)]
    /\ pc' = "generated"
    /\ UNCHANGED <<readme, readme_data, heading_map, text, slug, links,
                   argv, fs0, metadata, exit_code>>

NextContent == CallParseReadme \/ CallBuildHeadingMap \/ CallGenerateContent

SpecContent == InitContent /\ [][NextContent]_vars

----------------------------------------------------------------------------
(* Pages of the content directory                                          *)

PageFile(s) == s \o S_md

Generated == pc = "generated"

Files == fs.content.files

Sections == readme_data.sections

\* C11: for a parsed README with n sections generate_content emits exactly
\* one homepage record and exactly n section pages, one per section; the page
\* of the k-th section in source order carries weight k and no section's page
\* is lost or replaced by the page of another section.
C11_OnePagePerSection ==
    Generated =>
        /\ S_index_md \in DOMAIN Files
        /\ Cardinality(DOMAIN Files) = Len(Sections) + 1
        /\ \A k \in 1..Len(Sections) :
              /\ PageFile(Sections[k].slug) \in DOMAIN Files
              /\ Files[PageFile(Sections[k].slug)].title
                    = escape_toml(Sections[k].title)
              /\ Files[PageFile(Sections[k].slug)].weight = k

----------------------------------------------------------------------------
(* Specification SpecRebuild: runs of build.py and of build-action.py, one *)
(* after the other, against the same target; README.md may be edited       *)
(* between two runs.                                                       *)

\* the user replaces, removes or keeps README.md, then starts the next run
Rerun ==
    /\ pc = "exit"
    /\ fs.exists
    /\ \E d \in Readmes \cup {ReadmeAbsent, fs.readme} :
          fs' = [fs EXCEPT !.readme = d]
    /\ fs0' = fs'
    /\ argv' \in Argvs
    /\ pc' = IF argv'.script = "build.py" THEN "check_repo"
             ELSE "action_check_source"
    /\ metadata' = None
    /\ readme_data' = None
    /\ exit_code' = None
    /\ UNCHANGED <<text, slug, readme, heading_map, content, current_slug,
                   rewritten>>

NextRebuild == NextBuild \/ Rerun

SpecRebuild == InitBuild /\ [][NextRebuild]_vars

----------------------------------------------------------------------------
(* The content directory after a run                                       *)

\* the run has just written its content directory
JustGenerated ==
    \/ argv.script = "build.py" /\ pc = "setup"
    \/ argv.script = "build-action.py" /\ pc = "exit" /\ exit_code = 0

\* the content directory of the running script in the target r: content/ for
\* build.py, .zola-build/content/ for build-action.py
ContentDir(r) ==
    IF argv.script = "build.py" THEN r.content
    ELSE IF r.build_dir.kind = "dir" THEN r.build_dir.content
    ELSE Absent

\* _index.md and one <slug>.md for each section slug of the README text d
ExpectedPages(d) ==
    {S_index_md} \cup
    {PageFile(parse_readme(d).sections[k].slug) :
        k \in 1..Len(parse_readme(d).sections)}

\* C13: after any sequence of runs against the same target, README.md
\* possibly changed between them, the content directory holds exactly the
\* pages of the most recent run, _index.md and one <slug>.md for each section
\* slug of the current README, and no page of an earlier run; a run over a
\* README that did not change since the run before leaves the generated
\* files as they were.
C13_NoStalePages ==
    JustGenerated =>
        /\ ContentDir(fs).kind = "dir"
        /\ DOMAIN ContentDir(fs).files = ExpectedPages(fs.readme)
        /\ (ContentDir(fs0) = generate_content(parse_readme(fs.readme))
               => ContentDir(fs) = ContentDir(fs0))

\* the run started on a content directory that an earlier run had generated
\* from another README and that held a page the current README has no
\* section for
C13_Witness ==
    /\ JustGenerated
    /\ ContentDir(fs0).kind = "dir"
    /\ \E d \in Readmes \ {fs.readme} :
          ContentDir(fs0) = generate_content(parse_readme(d))
    /\ \E f \in DOMAIN ContentDir(fs0).files : f \notin DOMAIN ContentDir(fs).files

----------------------------------------------------------------------------
(* Links of the written pages                                              *)

\* the anchors of the links of the shape [text](#anchor) in s
BareAnchors(s) ==
    {SubSeq(s, j + 3, k - 1) : <<j, k>> \in
        {<<j, k>> \in (1..Len(s)) \X (1..Len(s)) :
            \E i \in 1..Len(s) :
                /\ ShapeBetween(s, i, k)
                /\ j \in (i + 2)..(k - 4)
                /\ s[j] = "]" /\ s[j + 1] = "(" /\ s[j + 2] = "#"
                /\ \A x \in (i + 1)..(j - 1) : s[x] /= "]"}}

\* the page slugs of the links of the shape [text](@/<slug>.md#anchor) in s
CrossPageSlugs(s) ==
    {SubSeq(s, j + 4, m - 1) : <<j, m>> \in
        {<<j, m>> \in (1..Len(s)) \X (1..Len(s)) :
            /\ j >= 3 /\ j + 4 <= m /\ m + 5 <= Len(s)
            /\ s[j] = "]" /\ s[j + 1] = "(" /\ s[j + 2] = "@" /\ s[j + 3] = "/"
            /\ SubSeq(s, m, m + 3) = S_md \o <<"#">>
            /\ \A x \in (j + 4)..(m - 1) : s[x] \notin {".", ")"}
            /\ \E i \in 1..(j - 2) :
                  s[i] = "[" /\ \A x \in (i + 1)..(j - 1) : s[x] /= "]"
            /\ \E k \in (m + 5)..Len(s) :
                  s[k] = ")" /\ \A x \in (m + 4)..(k - 1) : s[x] /= ")"}}

\* the page a file of the content directory is: the homepage for _index.md,
\* the slug for <slug>.md
PageOf(f) == IF f = S_index_md THEN None ELSE SubSeq(f, 1, Len(f) - Len(S_md))

CrossPageLinksResolve ==
    \A f \in DOMAIN Files : \A t \in CrossPageSlugs(Files[f].body) :
        PageFile(t) \in DOMAIN Files

BareLinksStayOnPage ==
    \A f \in DOMAIN Files : \A a \in BareAnchors(Files[f].body) :
        a \in DOMAIN heading_map /\ heading_map[a] = PageOf(f)

\* C14: in the pages one generate_content run writes, every cross-page link
\* [text](@/<slug>.md#anchor) names a page file <slug>.md that the same run
\* writes, and every bare-fragment link [text](#anchor) that is left in a
\* page has an anchor that the heading map assigns to that same page.
C14_LinksResolve ==
    Generated => CrossPageLinksResolve /\ BareLinksStayOnPage

====
